---- MODULE Spec2Model ----
(***************************************************************************)
(* RevenueClassifier (classifier/revenue_classifier.py): the pattern store *)
(* built by _load_patterns from the two JSON datasets, and the rule        *)
(* cascade of classify / classify_all over it.                             *)
(*                                                                         *)
(* Strings are sequences of one-character strings.  str.upper, the `in`    *)
(* substring test and re.search under re.IGNORECASE are computed, not      *)
(* assumed.  A regular expression is a sequence of tokens: a letter (a     *)
(* literal), "." (any character) or "(" (an unterminated group, which      *)
(* re.compile and re.search reject with re.error).  An Optional is a       *)
(* sequence of length at most one.  A list object (flags) lives in a heap  *)
(* and is named by its identity.                                           *)
(***************************************************************************)
EXTENDS Integers, Sequences, FiniteSets, TLC

VARIABLES data, status, error, store, call, out, heap, kept, since

vars == <<data, status, error, store, call, out, heap, kept, since>>

(* ------------------------------ bounds -------------------------------- *)

MaxDescLen == 2
MaxBatch == 2

(* --------------------------- strings, regex --------------------------- *)

Chars == {"a", "A", "b"}

upper_char(c) ==
    CASE c = "a" -> "A"
      [] c = "b" -> "B"
      [] OTHER -> c

upper(s) == [i \in 1..Len(s) |-> upper_char(s[i])]

\* `sub in s` on str
contains(s, sub) ==
    \E off \in 0..(Len(s) - Len(sub)) :
        \A i \in 1..Len(sub) : s[off + i] = sub[i]

\* re.compile(p): "(" opens a group that is never closed
re_valid(p) == \A i \in 1..Len(p) : p[i] # "("

\* one token against one character under re.IGNORECASE
re_tok(tok, c) == tok = "." \/ upper_char(tok) = upper_char(c)

\* re.search(p, s, re.IGNORECASE) is not None, for a valid p
re_search(p, s) ==
    \E off \in 0..(Len(s) - Len(p)) :
        \A i \in 1..Len(p) : re_tok(p[i], s[off + i])

\* any(p.search(description) for p in patterns)
any_search(patterns, description) ==
    \E k \in 1..Len(patterns) : re_search(patterns[k], description)

Some(x) == <<x>>
None == <<>>

(* ------------------------------- enums -------------------------------- *)

RevenueType ==
    {"true_revenue", "non_true_revenue", "outlier", "mca_payment", "needs_review"}

WireType ==
    {"wire_transfer", "fed_wire", "chips_credit", "book_transfer",
     "foreign_remittance", "unknown"}

TransactionType ==
    {"deposit", "withdrawal", "transfer", "wire", "ach", "check", "card", "fee"}

(* ----------------------------- datasets ------------------------------- *)

pA == <<"a">>
pB == <<"B">>
pAB == <<"a", "b">>
pBad == <<"(">>

\* mca_lender_list.json "lenders": canonical name -> aliases, in file order
LenderSets ==
    { <<>>,
      << <<"L1", << <<"a">> >> >> >>,
      << <<"L1", << <<"b">> >> >>, <<"L2", << <<"A">>, <<"a">> >> >> >>,
      << <<"L1", << <<"a", "b">> >> >>, <<"L2", << <<"A", "b">> >> >> >>,
      << <<"L1", << <<"a">>, <<"b">> >> >>, <<"L2", << <<"A">> >> >> >>,
      << <<"", << <<"a">> >> >> >> }

\* one of the five pattern lists of revenue_patterns.json
RuleLists == { <<>>, <<pA>>, <<pAB, pB>> }

\* "wire_patterns": pattern -> wire type name, in file order
WireTables ==
    { <<>>,
      << <<pA, "fed_wire">> >>,
      << <<pA, "foreign_remittance">> >>,
      << <<pB, "fed_wire">>, <<pA, "foreign_remittance">> >>,
      << <<pAB, "foreign_remittance">>, <<pB, "unknown">> >> }

ListKeys ==
    {"true_revenue_patterns", "non_true_revenue_patterns",
     "treasury_true_patterns", "treasury_false_positive_patterns",
     "zelle_venmo_patterns"}

DataKeys == {"lenders", "wire_patterns"} \cup ListKeys

WellFormedData ==
    { [k \in DataKeys |->
          CASE k = "lenders" -> l
            [] k = "wire_patterns" -> w
            [] k = "true_revenue_patterns" -> r[1]
            [] k = "non_true_revenue_patterns" -> r[2]
            [] k = "treasury_true_patterns" -> r[3]
            [] k = "treasury_false_positive_patterns" -> r[4]
            [] OTHER -> r[5]] :
      l \in LenderSets, w \in WireTables,
      r \in [1..5 -> RuleLists] }

\* the datasets the defects below are applied to
BaseData ==
    { d \in WellFormedData :
        /\ d["lenders"] \in { <<>>, << <<"L1", << <<"a">> >> >> >> }
        /\ d["wire_patterns"] = << <<pB, "fed_wire">>, <<pA, "foreign_remittance">> >>
        /\ \A k \in ListKeys : d[k] = <<pAB, pB>> }

Restrict(d, keys) == [k \in keys |-> d[k]]

\* one defect each: a key missing, a pattern that is no regular expression,
\* a wire type name outside the enumeration
MalformedData ==
    UNION { { Restrict(d, DataKeys \ {k}) : k \in DataKeys }
            \cup { [d EXCEPT ![k] = <<pB, pBad>>] : k \in ListKeys }
            \cup { [d EXCEPT !["wire_patterns"] = w] :
                     w \in { << <<pBad, "fed_wire">> >>,
                             << <<pA, "fed_wire">>, <<pBad, "foreign_remittance">> >>,
                             << <<pA, "fed_wire">>, <<pB, "swift">> >> } }
          : d \in BaseData }

Datasets == WellFormedData \cup MalformedData

(* --------------------- _load_patterns (construction) ------------------- *)

\* a reverse index that keeps every insertion, so that the first lender
\* listing an alias answers for it
dict_set_append(d, k, v) == Append(d, <<k, v>>)

\* d[k] = v on a dict kept as a sequence of <<key, value>> in insertion order:
\* an existing key keeps its position and takes the new value
dict_set(d, k, v) ==
    IF \E i \in 1..Len(d) : d[i][1] = k
    THEN [i \in 1..Len(d) |-> IF d[i][1] = k THEN <<k, v>> ELSE d[i]]
    ELSE Append(d, <<k, v>>)

\* for aka in aka_list: self.aka_to_mca[aka.upper()] = mca_name
RECURSIVE index_aliases(_, _, _)
index_aliases(index, mca_name, aka_list) ==
    IF aka_list = <<>> THEN index
    ELSE index_aliases(dict_set(index, upper(Head(aka_list)), mca_name),
                       mca_name, Tail(aka_list))

\* for mca_name, aka_list in self.mca_names.items(): ...
RECURSIVE build_aka_to_mca(_, _)
build_aka_to_mca(index, lenders) ==
    IF lenders = <<>> THEN index
    ELSE build_aka_to_mca(index_aliases(index, Head(lenders)[1], Head(lenders)[2]),
                          Tail(lenders))

\* [re.compile(p, re.IGNORECASE) for p in patterns[key]]
compile_error(d, key) ==
    IF key \notin DOMAIN d THEN "KeyError"
    ELSE IF \E i \in 1..Len(d[key]) : ~re_valid(d[key][i]) THEN "re.error"
    ELSE "none"

\* self.wire_patterns[pattern] = WireType(wire_type): the key is kept as text
wire_error(d) ==
    IF "wire_patterns" \notin DOMAIN d THEN "KeyError"
    ELSE IF \E i \in 1..Len(d["wire_patterns"]) :
                d["wire_patterns"][i][2] \notin WireType THEN "ValueError"
    ELSE "none"

\* the statements of _load_patterns in order, each with the error it raises
load_errors(d) ==
    << IF "lenders" \in DOMAIN d THEN "none" ELSE "KeyError",
       compile_error(d, "true_revenue_patterns"),
       compile_error(d, "non_true_revenue_patterns"),
       compile_error(d, "treasury_true_patterns"),
       compile_error(d, "treasury_false_positive_patterns"),
       compile_error(d, "zelle_venmo_patterns"),
       wire_error(d) >>

first_error(errs) ==
    IF \A i \in 1..Len(errs) : errs[i] = "none" THEN "none"
    ELSE errs[CHOOSE i \in 1..Len(errs) :
                 /\ errs[i] # "none"
                 /\ \A j \in 1..(i - 1) : errs[j] = "none"]

NoStore == [loaded |-> FALSE]

_load_patterns(d) ==
    LET err == first_error(load_errors(d)) IN
    IF err # "none" THEN [error |-> err, store |-> NoStore]
    ELSE [error |-> "none",
          store |->
            [loaded |-> TRUE,
             aka_to_mca |-> build_aka_to_mca(<<>>, d["lenders"]),
             true_revenue_patterns |-> d["true_revenue_patterns"],
             non_true_revenue_patterns |-> d["non_true_revenue_patterns"],
             treasury_true_patterns |-> d["treasury_true_patterns"],
             treasury_false_patterns |-> d["treasury_false_positive_patterns"],
             p2p_patterns |-> d["zelle_venmo_patterns"],
             wire_patterns |-> d["wire_patterns"]]]

(* ------------------------------ classify ------------------------------ *)

\* for aka_name, mca_name in self.aka_to_mca.items(): first key contained
RECURSIVE _lookup_mca(_, _)
_lookup_mca(aka_to_mca, description) ==
    LET desc_upper == upper(description) IN
    IF aka_to_mca = <<>> THEN None
    ELSE IF contains(desc_upper, Head(aka_to_mca)[1]) THEN Some(Head(aka_to_mca)[2])
    ELSE _lookup_mca(Tail(aka_to_mca), description)

\* a wire lookup in which the last matching pattern wins
RECURSIVE _classify_wire_last(_, _)
_classify_wire_last(wire_patterns, description) ==
    IF wire_patterns = <<>> THEN [error |-> "none", value |-> None]
    ELSE IF ~re_valid(Head(wire_patterns)[1]) THEN [error |-> "re.error", value |-> None]
    ELSE LET later == _classify_wire_last(Tail(wire_patterns), description) IN
         IF later.error # "none" \/ later.value # None THEN later
         ELSE IF re_search(Head(wire_patterns)[1], description)
         THEN [error |-> "none", value |-> Some(Head(wire_patterns)[2])]
         ELSE later

\* for pattern, wire_type in self.wire_patterns.items(): re.search compiles
\* the pattern text when it is reached
RECURSIVE _classify_wire(_, _)
_classify_wire(wire_patterns, description) ==
    IF wire_patterns = <<>> THEN [error |-> "none", value |-> None]
    ELSE IF ~re_valid(Head(wire_patterns)[1]) THEN [error |-> "re.error", value |-> None]
    ELSE IF re_search(Head(wire_patterns)[1], description)
         THEN [error |-> "none", value |-> Some(Head(wire_patterns)[2])]
    ELSE _classify_wire(Tail(wire_patterns), description)

\* a P2P test that tries the first pattern only
_is_p2p_first(self, description) ==
    self.p2p_patterns # <<>> /\ re_search(self.p2p_patterns[1], description)

_is_p2p(self, description) == any_search(self.p2p_patterns, description)
_is_treasury_true(self, description) == any_search(self.treasury_true_patterns, description)
_is_treasury_false(self, description) == any_search(self.treasury_false_patterns, description)
_is_true_revenue(self, description) == any_search(self.true_revenue_patterns, description)
_is_non_true_revenue(self, description) == any_search(self.non_true_revenue_patterns, description)

\* a flags list shared with a result the caller still holds
reuse_list(hp) == IF DOMAIN hp = {} THEN 1 ELSE CHOOSE id \in DOMAIN hp : TRUE

\* field(default_factory=list): the identity of a list no live object has
new_list(hp) == CHOOSE id \in 1..(Cardinality(DOMAIN hp) + 1) : id \notin DOMAIN hp

alloc(hp, id) == (id :> <<>>) @@ hp

\* classified.flags.append(flag)
flags_append(hp, id, flag) == [hp EXCEPT ![id] = Append(@, flag)]

returns(classified, hp) == [error |-> "none", result |-> Some(classified), heap |-> hp]
raises(err, hp) == [error |-> err, result |-> None, heap |-> hp]

\* a result that starts out as mca_payment
ClassifiedTransaction_mca(transaction, id) ==
    [date |-> transaction.date,
     description |-> transaction.description,
     amount |-> transaction.amount,
     transaction_type |-> transaction.transaction_type,
     raw_text |-> transaction.raw_text,
     revenue_type |-> "mca_payment",
     mca_match |-> None,
     wire_type |-> None,
     flags |-> id]

\* ClassifiedTransaction(date=..., description=..., amount=..., ...)
ClassifiedTransaction(transaction, id) ==
    [date |-> transaction.date,
     description |-> transaction.description,
     amount |-> transaction.amount,
     transaction_type |-> transaction.transaction_type,
     raw_text |-> transaction.raw_text,
     revenue_type |-> "needs_review",
     mca_match |-> None,
     wire_type |-> None,
     flags |-> id]

\* a cascade that asks treasury-false before treasury-true
classify_patterns_swapped(self, hp, classified, desc) ==
    LET id == classified.flags IN
    IF _is_p2p(self, desc)
    THEN returns([classified EXCEPT !.revenue_type = "needs_review"],
                 flags_append(hp, id, "P2P_REVIEW_REQUIRED"))
    ELSE IF _is_treasury_false(self, desc)
    THEN returns([classified EXCEPT !.revenue_type = "non_true_revenue"],
                 flags_append(hp, id, "TREASURY_FALSE_POSITIVE"))
    ELSE IF _is_treasury_true(self, desc)
    THEN returns([classified EXCEPT !.revenue_type = "true_revenue"],
                 flags_append(hp, id, "TREASURY_PAYMENT"))
    ELSE IF _is_non_true_revenue(self, desc)
    THEN returns([classified EXCEPT !.revenue_type = "non_true_revenue"], hp)
    ELSE IF _is_true_revenue(self, desc)
    THEN returns([classified EXCEPT !.revenue_type = "true_revenue"], hp)
    ELSE returns([classified EXCEPT !.revenue_type = "needs_review"], hp)

\* the cascade after the wire step: P2P, treasury, revenue patterns, default
classify_patterns(self, hp, classified, desc) ==
    LET id == classified.flags IN
    IF _is_p2p(self, desc)
    THEN returns([classified EXCEPT !.revenue_type = "needs_review"],
                 flags_append(hp, id, "P2P_REVIEW_REQUIRED"))
    ELSE IF _is_treasury_true(self, desc)
    THEN returns([classified EXCEPT !.revenue_type = "true_revenue"],
                 flags_append(hp, id, "TREASURY_PAYMENT"))
    ELSE IF _is_treasury_false(self, desc)
    THEN returns([classified EXCEPT !.revenue_type = "non_true_revenue"],
                 flags_append(hp, id, "TREASURY_FALSE_POSITIVE"))
    ELSE IF _is_non_true_revenue(self, desc)
    THEN returns([classified EXCEPT !.revenue_type = "non_true_revenue"], hp)
    ELSE IF _is_true_revenue(self, desc)
    THEN returns([classified EXCEPT !.revenue_type = "true_revenue"], hp)
    ELSE returns([classified EXCEPT !.revenue_type = "needs_review"], hp)

\* a wire step that records a foreign remittance and lets the cascade go on
classify_wire_step_on(self, hp, classified, desc) ==
    LET wire == _classify_wire(self.wire_patterns, desc)
        wire_type == wire.value
    IN
    IF wire.error # "none" THEN raises(wire.error, hp)
    ELSE IF wire_type # None
    THEN classify_patterns(self, hp, [classified EXCEPT !.wire_type = wire_type], desc)
    ELSE classify_patterns(self, hp, classified, desc)

\* the wire step: a foreign remittance ends the cascade, another type is recorded
classify_wire_step(self, hp, classified, desc) ==
    LET wire == _classify_wire(self.wire_patterns, desc)
        wire_type == wire.value
        id == classified.flags
    IN
    IF wire.error # "none" THEN raises(wire.error, hp)
    ELSE IF wire_type # None
    THEN LET c1 == [classified EXCEPT !.wire_type = wire_type] IN
         IF wire_type = Some("foreign_remittance")
         THEN returns([c1 EXCEPT !.revenue_type = "non_true_revenue"],
                      flags_append(hp, id, "FOREIGN_WIRE_NOT_REVENUE"))
         ELSE classify_patterns(self, hp, c1, desc)
    ELSE classify_patterns(self, hp, classified, desc)

\* `if mca_match:` is false for None and for the empty string
truthy(opt) == opt # None /\ opt # Some("")

\* a gate that lets a zero amount through
not_deposit_strict(amount) == amount < 0

\* `if transaction.amount <= 0`
not_deposit(amount) == amount <= 0

classify(self, hp, transaction) ==
    LET id == new_list(hp)
        hp1 == alloc(hp, id)
        classified == ClassifiedTransaction(transaction, id)
        desc == upper(transaction.description)
        mca_match == _lookup_mca(self.aka_to_mca, desc)
    IN
    IF not_deposit(transaction.amount)
    THEN returns([classified EXCEPT !.revenue_type = "non_true_revenue"], hp1)
    ELSE IF truthy(mca_match)
    THEN returns([classified EXCEPT !.mca_match = mca_match], hp1)
    ELSE classify_wire_step(self, hp1, classified, desc)

\* a batch whose results come back in reverse order
RECURSIVE classify_all_reversed(_, _, _)
classify_all_reversed(self, hp, transactions) ==
    IF transactions = <<>> THEN [error |-> "none", result |-> <<>>, heap |-> hp]
    ELSE LET first == classify(self, hp, Head(transactions)) IN
         IF first.error # "none" THEN [error |-> first.error, result |-> <<>>, heap |-> hp]
         ELSE LET rest == classify_all_reversed(self, first.heap, Tail(transactions)) IN
              IF rest.error # "none" THEN [error |-> rest.error, result |-> <<>>, heap |-> hp]
              ELSE [error |-> "none", result |-> rest.result \o first.result,
                    heap |-> rest.heap]

\* [self.classify(txn) for txn in transactions]
RECURSIVE classify_all(_, _, _)
classify_all(self, hp, transactions) ==
    IF transactions = <<>> THEN [error |-> "none", result |-> <<>>, heap |-> hp]
    ELSE LET first == classify(self, hp, Head(transactions)) IN
         IF first.error # "none" THEN [error |-> first.error, result |-> <<>>, heap |-> hp]
         ELSE LET rest == classify_all(self, first.heap, Tail(transactions)) IN
              IF rest.error # "none" THEN [error |-> rest.error, result |-> <<>>, heap |-> hp]
              ELSE [error |-> "none", result |-> first.result \o rest.result,
                    heap |-> rest.heap]

(* ------------------------------- inputs ------------------------------- *)

Descriptions == UNION { [1..n -> Chars] : n \in 0..MaxDescLen }

Amounts == {-1, 0, 1}

Transaction(description, amount) ==
    [date |-> "2024-01-15",
     description |-> description,
     amount |-> amount,
     transaction_type |-> "ach",
     raw_text |-> ""]

Transactions == { Transaction(d, a) : d \in Descriptions, a \in Amounts }

\* the transactions batches are made of
BatchItems ==
    { Transaction(<<"a">>, 1), Transaction(<<"b">>, 1),
      Transaction(<<"A", "b">>, 1), Transaction(<<"a">>, 0) }

Batches == UNION { [1..n -> BatchItems] : n \in 0..MaxBatch }

(* ------------------------------ the state ----------------------------- *)

NoCall == [op |-> "none", args |-> <<>>]

\* the list objects a caller can still reach: those of the retained result
live(hp) ==
    [id \in { id \in DOMAIN hp : kept # None /\ kept[1].result.flags = id } |-> hp[id]]

Init ==
    /\ data \in Datasets
    /\ status = "new"
    /\ error = "none"
    /\ store = NoStore
    /\ call = NoCall
    /\ out = <<>>
    /\ heap = <<>>
    /\ kept = None
    /\ since = {}

\* RevenueClassifier(data_dir): __init__ runs _load_patterns; when it raises,
\* the caller gets no object
Construct ==
    /\ status = "new"
    /\ LET r == _load_patterns(data) IN
        /\ status' = IF r.error = "none" THEN "ready" ELSE "failed"
        /\ error' = r.error
        /\ store' = r.store
    /\ UNCHANGED <<data, call, out, heap, kept, since>>

\* calls are sequential: the caller is between calls (call.op = "none")
Classify ==
    /\ status = "ready"
    /\ call.op = "none"
    /\ \E t \in Transactions :
        LET r == classify(store, heap, t) IN
        /\ call' = [op |-> "classify", args |-> <<t>>]
        /\ error' = r.error
        /\ out' = r.result
        /\ heap' = r.heap
    /\ since' = IF kept = None THEN since ELSE since \cup {"classify"}
    /\ UNCHANGED <<data, status, store, kept>>

ClassifyAll ==
    /\ status = "ready"
    /\ call.op = "none"
    /\ \E ts \in Batches :
        LET r == classify_all(store, heap, ts) IN
        /\ call' = [op |-> "classify_all", args |-> ts]
        /\ error' = r.error
        /\ out' = r.result
        /\ heap' = r.heap
    /\ since' = IF kept = None THEN since ELSE since \cup {"classify_all"}
    /\ UNCHANGED <<data, status, store, kept>>

\* the caller keeps the result (and its flags as they are now) of the classify
\* call that just returned, and goes on
Retain ==
    /\ kept = None
    /\ call.op = "classify"
    /\ error = "none"
    /\ kept' = Some([transaction |-> call.args[1],
                     result |-> out[1],
                     flags |-> heap[out[1].flags]])
    /\ call' = NoCall
    /\ out' = <<>>
    /\ UNCHANGED <<data, status, error, store, heap, since>>

\* the caller is done with what the call returned or raised
Return ==
    /\ call.op # "none"
    /\ call' = NoCall
    /\ error' = "none"
    /\ out' = <<>>
    /\ heap' = live(heap)
    /\ UNCHANGED <<data, status, store, kept, since>>

Next == Construct \/ Classify \/ ClassifyAll \/ Return

Spec == Init /\ [][Next]_vars

\* the datasets of the runs in which a caller retains a result
RetainData ==
    { d \in WellFormedData :
        /\ d["lenders"] = << <<"L1", << <<"a", "b">> >> >>, <<"L2", << <<"A", "b">> >> >> >>
        /\ d["wire_patterns"] \in
             { <<>>, << <<pB, "fed_wire">>, <<pA, "foreign_remittance">> >> }
        /\ d["true_revenue_patterns"] = <<pA>>
        /\ d["non_true_revenue_patterns"] = <<pAB, pB>>
        /\ d["treasury_false_positive_patterns"] = <<>> }

InitRetain == Init /\ data \in RetainData

NextRetain == Next \/ Retain

SpecRetain == InitRetain /\ [][NextRetain]_vars

(* ============================== properties ============================ *)

\* the call classify(Tx) that is returning Res (or raising)
Tx == call.args[1]
Res == out[1]
ResFlags == heap[out[1].flags]
Classifying == call.op = "classify"
Returned == call.op = "classify" /\ error = "none"

\* case-insensitive comparison, stated without str.upper
SameLetter(x, y) ==
    \/ x = y
    \/ {x, y} = {"a", "A"}
    \/ {x, y} = {"b", "B"}

SameText(s, t) ==
    Len(s) = Len(t) /\ \A i \in 1..Len(s) : SameLetter(s[i], t[i])

Occurs(sub, s) ==
    \E off \in 0..(Len(s) - Len(sub)) :
        \A i \in 1..Len(sub) : SameLetter(sub[i], s[off + i])

\* positions <<i, j>> of the aliases of the lender dataset, in file order
AliasPositions ==
    UNION { { <<i, j>> : j \in 1..Len(data["lenders"][i][2]) } :
            i \in 1..Len(data["lenders"]) }

AliasAt(q) == data["lenders"][q[1]][2][q[2]]
LenderAt(q) == data["lenders"][q[1]][1]
Before(q, r) == q[1] < r[1] \/ (q[1] = r[1] /\ q[2] <= r[2])

\* some configured alias occurs in the description, case-insensitively
LenderAliasIn(description) ==
    \E q \in AliasPositions : Occurs(AliasAt(q), description)

\* a pattern of the wire table, read as a case-insensitive regular expression
\* over the description as given
WireMatches(i, description) ==
    /\ re_valid(data["wire_patterns"][i][1])
    /\ re_search(data["wire_patterns"][i][1], description)

ForeignWireMatch(description) ==
    \E i \in 1..Len(data["wire_patterns"]) :
        /\ data["wire_patterns"][i][2] = "foreign_remittance"
        /\ WireMatches(i, description)

\* the first wire pattern in configured order that matches is entry i
FirstWireIs(i, description) ==
    /\ WireMatches(i, description)
    /\ \A j \in 1..(i - 1) :
        /\ re_valid(data["wire_patterns"][j][1])
        /\ ~re_search(data["wire_patterns"][j][1], description)

MatchesAny(key, description) ==
    \E k \in 1..Len(data[key]) : re_search(data[key][k], description)

FirstAliasIn(description) ==
    CHOOSE q \in AliasPositions :
        /\ Occurs(AliasAt(q), description)
        /\ \A r \in AliasPositions : Occurs(AliasAt(r), description) => Before(q, r)

\* the lender the reverse index gives that alias: the last lender in file
\* order listing it (in any letter case)
OwnerOf(q) ==
    LenderAt(CHOOSE r \in AliasPositions :
                /\ SameText(AliasAt(r), AliasAt(q))
                /\ \A x \in AliasPositions :
                     SameText(AliasAt(x), AliasAt(q)) => Before(x, r))

C3_AsStated ==
    (Classifying /\ ForeignWireMatch(Tx.description)) =>
        /\ error = "none"
        /\ Res.revenue_type = "non_true_revenue"
        /\ \E k \in 1..Len(ResFlags) : ResFlags[k] = "FOREIGN_WIRE_NOT_REVENUE"
        /\ Res.wire_type = Some("foreign_remittance")

(* C3, amended: for amount > 0, when no configured lender alias occurs in   *)
(* the description and the first wire pattern in configured order that      *)
(* matches it maps to foreign_remittance, classify returns exactly          *)
(* non_true_revenue, flags ["FOREIGN_WIRE_NOT_REVENUE"], wire_type          *)
(* foreign_remittance and no mca_match, whatever P2P, treasury or revenue   *)
(* patterns match too.                                                      *)
C3_ForeignWire ==
    (Classifying /\ Tx.amount > 0 /\ ~LenderAliasIn(Tx.description)) =>
        \A i \in 1..Len(data["wire_patterns"]) :
            ( /\ FirstWireIs(i, Tx.description)
              /\ data["wire_patterns"][i][2] = "foreign_remittance" ) =>
                /\ error = "none"
                /\ Res.revenue_type = "non_true_revenue"
                /\ ResFlags = <<"FOREIGN_WIRE_NOT_REVENUE">>
                /\ Res.wire_type = Some("foreign_remittance")
                /\ Res.mca_match = None

\* a foreign wire whose description matches P2P, treasury and true-revenue
\* patterns as well
C3_Witness ==
    /\ Returned
    /\ Tx.amount > 0
    /\ ~LenderAliasIn(Tx.description)
    /\ Res.wire_type = Some("foreign_remittance")
    /\ MatchesAny("zelle_venmo_patterns", Tx.description)
    /\ MatchesAny("treasury_true_patterns", Tx.description)
    /\ MatchesAny("true_revenue_patterns", Tx.description)
    /\ ResFlags = <<"FOREIGN_WIRE_NOT_REVENUE">>

(* C4, as stated: whenever the description matches a P2P pattern, no        *)
(* lender alias and no foreign-remittance wire pattern, the result is       *)
(* needs_review with flags containing "P2P_REVIEW_REQUIRED".                *)
C4_AsStated ==
    ( /\ Classifying
      /\ MatchesAny("zelle_venmo_patterns", Tx.description)
      /\ ~LenderAliasIn(Tx.description)
      /\ ~ForeignWireMatch(Tx.description) ) =>
        /\ error = "none"
        /\ Res.revenue_type = "needs_review"
        /\ \E k \in 1..Len(ResFlags) : ResFlags[k] = "P2P_REVIEW_REQUIRED"

(* C4, amended: for amount > 0, when the description matches a P2P pattern, *)
(* no lender alias and no foreign-remittance wire pattern, the result       *)
(* classify returns is needs_review with flags ["P2P_REVIEW_REQUIRED"] and  *)
(* no mca_match, whatever treasury or revenue patterns match too.           *)
C4_P2P ==
    ( /\ Returned
      /\ Tx.amount > 0
      /\ MatchesAny("zelle_venmo_patterns", Tx.description)
      /\ ~LenderAliasIn(Tx.description)
      /\ ~ForeignWireMatch(Tx.description) ) =>
        /\ Res.revenue_type = "needs_review"
        /\ ResFlags = <<"P2P_REVIEW_REQUIRED">>
        /\ Res.mca_match = None

\* a P2P match by the second pattern of the list only, with treasury and
\* revenue patterns matching too
C4_Witness ==
    /\ Returned
    /\ Tx.amount > 0
    /\ ~LenderAliasIn(Tx.description)
    /\ ~ForeignWireMatch(Tx.description)
    /\ Len(data["zelle_venmo_patterns"]) = 2
    /\ ~re_search(data["zelle_venmo_patterns"][1], Tx.description)
    /\ re_search(data["zelle_venmo_patterns"][2], Tx.description)
    /\ MatchesAny("treasury_true_patterns", Tx.description)
    /\ MatchesAny("non_true_revenue_patterns", Tx.description)
    /\ ResFlags = <<"P2P_REVIEW_REQUIRED">>

\* the verdict of the four pattern categories below P2P, by precedence
Precedence(description) ==
    IF MatchesAny("treasury_true_patterns", description)
    THEN <<"true_revenue", <<"TREASURY_PAYMENT">> >>
    ELSE IF MatchesAny("treasury_false_positive_patterns", description)
    THEN <<"non_true_revenue", <<"TREASURY_FALSE_POSITIVE">> >>
    ELSE IF MatchesAny("non_true_revenue_patterns", description)
    THEN <<"non_true_revenue", <<>> >>
    ELSE IF MatchesAny("true_revenue_patterns", description)
    THEN <<"true_revenue", <<>> >>
    ELSE <<"needs_review", <<>> >>

(* C5: for amount > 0 and a description that matches no lender alias, no    *)
(* foreign-remittance wire pattern and no P2P pattern, the result classify  *)
(* returns is fixed by the first of treasury-true, treasury-false,          *)
(* non-true-revenue, true-revenue that has a matching pattern, as           *)
(* (true_revenue, ["TREASURY_PAYMENT"]), (non_true_revenue,                 *)
(* ["TREASURY_FALSE_POSITIVE"]), (non_true_revenue, []), (true_revenue, []),*)
(* and is (needs_review, []) when none matches.                             *)
C5_Precedence ==
    ( /\ Returned
      /\ Tx.amount > 0
      /\ ~LenderAliasIn(Tx.description)
      /\ ~ForeignWireMatch(Tx.description)
      /\ ~MatchesAny("zelle_venmo_patterns", Tx.description) ) =>
        /\ <<Res.revenue_type, ResFlags>> = Precedence(Tx.description)
        /\ Res.mca_match = None

\* treasury-false, non-true-revenue and true-revenue all match and
\* treasury-true does not: treasury-false decides
C5_Witness ==
    /\ Returned
    /\ Tx.amount > 0
    /\ ~LenderAliasIn(Tx.description)
    /\ ~ForeignWireMatch(Tx.description)
    /\ ~MatchesAny("zelle_venmo_patterns", Tx.description)
    /\ ~MatchesAny("treasury_true_patterns", Tx.description)
    /\ MatchesAny("treasury_false_positive_patterns", Tx.description)
    /\ MatchesAny("non_true_revenue_patterns", Tx.description)
    /\ MatchesAny("true_revenue_patterns", Tx.description)
    /\ ResFlags = <<"TREASURY_FALSE_POSITIVE">>

\* the wire type C6 expects: that of the first matching wire pattern
ExpectedWire(description) ==
    IF \E i \in 1..Len(data["wire_patterns"]) : FirstWireIs(i, description)
    THEN Some(data["wire_patterns"][CHOOSE i \in 1..Len(data["wire_patterns"]) :
                                       FirstWireIs(i, description)][2])
    ELSE None

\* classify(Tx) on the same store with an empty wire table
WithoutWires == classify([store EXCEPT !.wire_patterns = <<>>], <<>>, Tx)

(* C6: for amount > 0 and no lender alias in the description, the result    *)
(* classify returns has wire_type = the subtype of the first wire pattern   *)
(* in configured order that matches (absent when none does); when that is   *)
(* not foreign_remittance, revenue_type and flags are those classify gives  *)
(* the same transaction with no wire pattern configured.                    *)
C6_WireRecorded ==
    (Returned /\ Tx.amount > 0 /\ ~LenderAliasIn(Tx.description)) =>
        /\ Res.wire_type = ExpectedWire(Tx.description)
        /\ Res.wire_type # Some("foreign_remittance") =>
            /\ WithoutWires.error = "none"
            /\ Res.revenue_type = WithoutWires.result[1].revenue_type
            /\ ResFlags = WithoutWires.heap[WithoutWires.result[1].flags]

\* a domestic wire pattern matches before a foreign one that matches too,
\* and the cascade goes on to flag a treasury payment
C6_Witness ==
    /\ Returned
    /\ Tx.amount > 0
    /\ ~LenderAliasIn(Tx.description)
    /\ ForeignWireMatch(Tx.description)
    /\ Res.wire_type = Some("fed_wire")
    /\ ResFlags = <<"TREASURY_PAYMENT">>

\* what the datasets must satisfy: every key present, every pattern of the
\* five lists and every key of wire_patterns a regular expression, every
\* value of wire_patterns a wire type name
WellFormed(d) ==
    /\ DOMAIN d = DataKeys
    /\ \A k \in ListKeys : \A i \in 1..Len(d[k]) : re_valid(d[k][i])
    /\ \A i \in 1..Len(d["wire_patterns"]) :
        /\ re_valid(d["wire_patterns"][i][1])
        /\ d["wire_patterns"][i][2] \in WireType

(* C7: malformed datasets make construction fail, leaving no classifier,    *)
(* and no call on a constructed classifier raises an error.                 *)
C7_FailFast ==
    /\ (status # "new" /\ ~WellFormed(data)) => (status = "failed" /\ error # "none")
    /\ status = "ready" => error = "none"

\* the results of a batch with their flags read from the heap
Value(r, hp) == [r EXCEPT !.flags = hp[r.flags]]

\* classify applied to the i-th transaction of the batch on its own
Alone(i) == classify(store, <<>>, call.args[i])

(* C8: classify_all(ts) returns as many results as ts has transactions, the *)
(* i-th equal to classify(ts[i]); it raises exactly when classify raises    *)
(* for some element, with the error of the first such element.              *)
C8_OrderPreserving ==
    call.op = "classify_all" =>
        LET n == Len(call.args)
            failing == { i \in 1..n : Alone(i).error # "none" }
        IN
        IF failing = {}
        THEN /\ error = "none"
             /\ Len(out) = n
             /\ \A i \in 1..n :
                  Value(out[i], heap) = Value(Alone(i).result[1], Alone(i).heap)
        ELSE /\ out = <<>>
             /\ \E i \in failing :
                  /\ error = Alone(i).error
                  /\ \A j \in failing : i <= j

\* a batch of two transactions whose results differ
C8_Witness ==
    /\ call.op = "classify_all"
    /\ error = "none"
    /\ Len(out) = 2
    /\ out[1].revenue_type # out[2].revenue_type
    /\ heap[out[1].flags] # heap[out[2].flags]
    /\ out[1].mca_match # out[2].mca_match

\* the list objects of the results a caller holds
FlagLists == { out[i].flags : i \in 1..Len(out) }

(* C9: a retained result is never changed by later calls; classifying the   *)
(* retained transaction again, after any calls in between, returns a result *)
(* with the same field values and its own flags list; the results of one    *)
(* call have pairwise different flags lists; a result carries the fields of *)
(* its input; and the store of a constructed classifier stays what          *)
(* construction built from the datasets.                                    *)
C9_Idempotent ==
    /\ status = "ready" => store = _load_patterns(data).store
    /\ Cardinality(FlagLists) = Len(out)
    /\ \A i \in 1..Len(out) :
        /\ out[i].description = call.args[i].description
        /\ out[i].amount = call.args[i].amount
        /\ out[i].date = call.args[i].date
        /\ out[i].transaction_type = call.args[i].transaction_type
        /\ out[i].raw_text = call.args[i].raw_text
    /\ kept # None =>
        /\ heap[kept[1].result.flags] = kept[1].flags
        /\ kept[1].result.flags \notin FlagLists
        /\ (Classifying /\ Tx = kept[1].transaction) =>
            /\ error = "none"
            /\ Value(Res, heap) = Value(kept[1].result, heap)

\* a flagged result is retained, a batch is classified, and the retained
\* transaction is classified again
C9_Witness ==
    /\ kept # None
    /\ "classify_all" \in since
    /\ kept[1].flags # <<>>
    /\ Classifying
    /\ Tx = kept[1].transaction
    /\ Res.flags # kept[1].result.flags

\* every result of the last call
Results == { out[i] : i \in 1..Len(out) }

====
